---- MODULE Spec2Model ----
(***************************************************************************)
(* Model of the raster editing engine of BGR-Pro                           *)
(* (src/components/ImageEditor.tsx, src/components/Toolbar.tsx): the       *)
(* undo/redo history over pixel buffers, the brush strokes and the crop    *)
(* rectangle with its deferred apply.                                      *)
(*                                                                         *)
(* Lengths and coordinates are kept in tenths of a pixel ("tenths"), so    *)
(* that canvas.width * 0.1 and canvas.width * 0.8 are exact; a pixel is a  *)
(* colour token with an alpha level 0 (transparent), 1 (translucent) or    *)
(* 2 (opaque).                                                             *)
(***************************************************************************)
EXTENDS Integers, Sequences, FiniteSets, TLC

\* ---------------------------------------------------------------- bounds
\* Width and height, in pixels, of the uploaded image.
ImgW == 5
ImgH == 5
\* Longest history log explored.
MaxHist == 3
\* Most crop applies whose image reload is outstanding at once.
MaxPending == 1
\* Most user events handled while a cropped original is still loading.
MaxWait == 1
\* The same two for a user who does not wait for a crop to complete.
MaxPendingRacing == 2
MaxWaitRacing == 4
\* Most times Crop mode is entered.
MaxSessions == 1
\* Farthest, in pixels, a dragged crop rectangle extends beyond the canvas.
MaxOutside == 4
\* Most times the App is reset (the FileUpload's key).
MaxKey == 2
\* Width and height of the image of the crop gestures: the least that keeps
\* the eight handles of the opening rectangle apart.
CropW == 60
CropH == 60

\* ------------------------------------------------------- program constants
HANDLE_SIZE == 10

Erase == "erase"
Restore == "restore"
Crop == "crop"
EditMode == {Erase, Restore, Crop}

\* useState<BrushSettings>({ size: 40 })
DefaultBrushSize == 40
\* Values of the size slider (min 1, max 150) the model tries.
BrushSizes == {2}

\* Option values: <<>> is null, <<v>> is v.
None == <<>>
Some(v) == <<v>>
Get(o) == o[1]

\* ------------------------------------------------------------------ pixels
\* A pixel is the number 3 * colour + alpha of a colour token and an alpha
\* level 1 or 2, or 0 when transparent (transparent black).
WhiteC == 97
BlackC == 98
MixC == 99
T == 0
Pixel(c, a) == IF a = 0 THEN T ELSE 3 * c + a
Alpha(p) == p % 3
Colour(p) == p \div 3

Abs(n) == IF n < 0 THEN -n ELSE n
Min(a, b) == IF a < b THEN a ELSE b

\* WebIDL conversion of a number to long / unsigned long: truncation toward
\* zero.  The argument is in tenths, the result in whole pixels.
ToLong(t) == IF t >= 0 THEN t \div 10 ELSE -((-t) \div 10)

\* A bitmap is [w, h, px]: w * h pixels, row by row.  Column and row of the
\* k-th pixel of a bitmap w wide:
Col(k, w) == (k - 1) % w
Row(k, w) == (k - 1) \div w

InBuf(b, i, j) == i >= 0 /\ i < b.w /\ j >= 0 /\ j < b.h

\* The pixel of b at (i, j); transparent black outside the bitmap.
Px(b, i, j) == IF InBuf(b, i, j) THEN b.px[j * b.w + i + 1] ELSE T

\* The bitmap of a freshly created <canvas>: 300 x 150, transparent.  No
\* handler reads it before img.onload replaces it, so its pixels are not
\* enumerated.
BlankCanvas == [w |-> 300, h |-> 150, px |-> <<>>]

\* The decoded processed image (background removed): the top right pixel is
\* removed background, its two neighbours are soft edge, the rest is opaque;
\* every pixel has its own colour.
ProcessedImage ==
  [w |-> ImgW, h |-> ImgH,
   px |-> [k \in 1..(ImgW * ImgH) |->
             LET i == Col(k, ImgW)
                 j == Row(k, ImgW)
             IN  Pixel(k, IF i = ImgW - 1 /\ j = 0 THEN 0
                          ELSE IF i + 1 >= ImgW - 1 /\ j <= 1 /\ (i = ImgW - 1 \/ j = 0) THEN 1
                          ELSE 2)]]

\* The decoded uploaded image: same dimensions, opaque but for one transparent
\* corner (a PNG upload), every pixel with its own colour.
OriginalImage ==
  [w |-> ImgW, h |-> ImgH,
   px |-> [k \in 1..(ImgW * ImgH) |-> Pixel(100 + k, IF k = ImgW * ImgH THEN 0 ELSE 2)]]

\* Compositing that ignores globalCompositeOperation (always source-over).
CompositeSourceOver(g, src, dst) ==
  IF Alpha(src) = 2 THEN src
  ELSE IF Alpha(src) = 0 THEN dst
  ELSE IF Alpha(dst) = 0 THEN src
  ELSE Pixel(MixC, Alpha(dst))

\* Porter-Duff compositing of src onto dst under globalCompositeOperation g.
Composite(g, src, dst) ==
  IF g = "destination-out"
  THEN IF Alpha(src) = 2 THEN T
       ELSE IF Alpha(src) = 0 THEN dst
       ELSE Pixel(Colour(dst), Min(Alpha(dst), 1))
  ELSE IF Alpha(src) = 2 THEN src
       ELSE IF Alpha(src) = 0 THEN dst
       ELSE IF Alpha(dst) = 0 THEN src
       ELSE Pixel(MixC, Alpha(dst))

\* A source pixel seen through an anti-aliased coverage.
Covered(cov, src) ==
  IF cov = "full" THEN src
  ELSE IF cov = "part" THEN Pixel(Colour(src), Min(Alpha(src), 1))
  ELSE T

\* Is the point (x, y) within distance r of the segment a-b?  (tenths)
NearSegment(x, y, a, b, r) ==
  LET vx == b.x - a.x
      vy == b.y - a.y
      wx == x - a.x
      wy == y - a.y
      L == vx * vx + vy * vy
      s == wx * vx + wy * vy
  IN  IF s <= 0 THEN wx * wx + wy * wy <= r * r
      ELSE IF s >= L THEN (x - b.x) * (x - b.x) + (y - b.y) * (y - b.y) <= r * r
      ELSE (wx * wx + wy * wy - r * r) * L <= s * s

\* Coverage of pixel (i, j) by the stroke of the path a-b with lineWidth
\* size, lineCap and lineJoin round: the points within size / 2 of the
\* segment.
StrokeCov(i, j, a, b, size) ==
  LET r == 5 * size
      In(x, y) == NearSegment(x, y, a, b, r)
      corners == In(10 * i, 10 * j) /\ In(10 * i + 10, 10 * j)
                 /\ In(10 * i, 10 * j + 10) /\ In(10 * i + 10, 10 * j + 10)
      some == In(10 * i + 5, 10 * j + 5)
              \/ In(10 * i, 10 * j) \/ In(10 * i + 10, 10 * j)
              \/ In(10 * i, 10 * j + 10) \/ In(10 * i + 10, 10 * j + 10)
  IN  IF corners THEN "full" ELSE IF some THEN "part" ELSE "none"

\* Coverage of pixel (i, j) by the region ctx.clip() makes of the path a-b:
\* the interior of the path under the fill rule.  The path is one segment,
\* which encloses no area, whatever the lineWidth.
ClipCov(i, j, a, b) == "none"

\* Coverage of pixel (i, j) by the rectangle [x0, x1] x [y0, y1], given in
\* twentieths of a pixel.
RectCov(i, j, x0, y0, x1, y1) ==
  IF x1 <= x0 \/ y1 <= y0 THEN "none"
  ELSE IF x1 <= 20 * i \/ x0 >= 20 * i + 20 \/ y1 <= 20 * j \/ y0 >= 20 * j + 20
  THEN "none"
  ELSE IF x0 <= 20 * i /\ x1 >= 20 * i + 20 /\ y0 <= 20 * j /\ y1 >= 20 * j + 20
  THEN "full"
  ELSE "part"

\* --------------------------------------------------------- canvas operations
\* A getImageData that accepts an empty rectangle.
GetImageDataNeverThrows(sw, sh) == FALSE

\* ctx.getImageData(sx, sy, sw, sh): the arguments are converted to long; it
\* throws IndexSizeError when sw or sh is zero after the conversion.
GetImageDataThrows(sw, sh) == ToLong(sw) = 0 \/ ToLong(sh) = 0

\* The result of ctx.getImageData(sx, sy, sw, sh) when it does not throw;
\* pixels outside the bitmap read as transparent black.
GetImageData(cv, sx, sy, sw, sh) ==
  [w |-> ToLong(sw), h |-> ToLong(sh),
   px |-> [k \in 1..(ToLong(sw) * ToLong(sh)) |->
             Px(cv, ToLong(sx) + Col(k, ToLong(sw)), ToLong(sy) + Row(k, ToLong(sw)))]]

\* The whole-bitmap snapshot saveToHistory and img.onload take.
Snapshot(cv) == GetImageData(cv, 0, 0, 10 * cv.w, 10 * cv.h)

\* ctx.putImageData(data, 0, 0) on a canvas just resized to w x h, which
\* the resize left transparent.
PutImageData(w, h, data) ==
  [w |-> w, h |-> h, px |-> [k \in 1..(w * h) |-> Px(data, Col(k, w), Row(k, w))]]

\* drawCropOverlay: dim the whole bitmap, clear the rectangle, outline it and
\* paint the eight handles, all under the context's current
\* globalCompositeOperation g (clearRect ignores it).
Handles(rect) ==
  LET x2 == 2 * rect.x
      y2 == 2 * rect.y
      w2 == 2 * rect.width
      h2 == 2 * rect.height
  IN  << <<x2, y2>>, <<x2 + w2, y2>>, <<x2, y2 + h2>>, <<x2 + w2, y2 + h2>>,
         <<x2 + rect.width, y2>>, <<x2 + rect.width, y2 + h2>>,
         <<x2, y2 + rect.height>>, <<x2 + w2, y2 + rect.height>> >>

\* Coverage of pixel (i, j) by the HANDLE_SIZE squares centred on handles.
HandleCov(i, j, handles) ==
  LET hs == 20 * HANDLE_SIZE
      cov(h) == RectCov(i, j, h[1] - hs \div 2, h[2] - hs \div 2,
                        h[1] - hs \div 2 + hs, h[2] - hs \div 2 + hs)
  IN  IF \E k \in 1..Len(handles) : cov(handles[k]) = "full" THEN "full"
      ELSE IF \E k \in 1..Len(handles) : cov(handles[k]) = "part" THEN "part"
      ELSE "none"

OutlineCov(i, j, rect) ==
  LET x0 == 2 * rect.x
      y0 == 2 * rect.y
      x1 == 2 * (rect.x + rect.width)
      y1 == 2 * (rect.y + rect.height)
  IN  IF rect.width = 0 /\ rect.height = 0 THEN "none"
      ELSE IF RectCov(i, j, x0 - 10, y0 - 10, x1 + 10, y1 + 10) = "none" THEN "none"
      ELSE IF RectCov(i, j, x0 + 10, y0 + 10, x1 - 10, y1 - 10) = "full" THEN "none"
      ELSE "part"

drawCropOverlay(g, rect, handles, i, j, p) ==
  LET dimmed == Composite(g, Pixel(BlackC, 1), p)
      clr == RectCov(i, j, 2 * rect.x, 2 * rect.y,
                     2 * (rect.x + rect.width), 2 * (rect.y + rect.height))
      cleared == IF clr = "full" THEN T
                 ELSE IF clr = "part" THEN Pixel(Colour(dimmed), Min(Alpha(dimmed), 1))
                 ELSE dimmed
      outlined == Composite(g, Covered(OutlineCov(i, j, rect), Pixel(WhiteC, 1)), cleared)
  IN  Composite(g, Covered(HandleCov(i, j, handles), Pixel(WhiteC, 2)), outlined)

\* redrawCanvas putting the entry before the cursor's.
redrawCanvasBehind(cv, g, hist, idx, mode, rect) ==
  [cv EXCEPT !.px = [k \in 1..(cv.w * cv.h) |->
                       IF idx \in 1..Len(hist)
                       THEN Px(hist[idx], Col(k, cv.w), Row(k, cv.w)) ELSE T]]

\* redrawCanvas: clear, put history[historyIndex] if there is one, and in
\* Crop mode with a rectangle draw the overlay on top.  The bitmap keeps its
\* size.
redrawCanvas(cv, g, hist, idx, mode, rect) ==
  LET has == Len(hist) > 0 /\ idx + 1 \in 1..Len(hist)
      base(i, j) == IF has THEN Px(hist[idx + 1], i, j) ELSE T
      handles == Handles(Get(rect))
  IN  [cv EXCEPT !.px = [k \in 1..(cv.w * cv.h) |->
                           LET i == Col(k, cv.w)
                               j == Row(k, cv.w)
                           IN  IF mode = Crop /\ rect # None
                               THEN drawCropOverlay(g, Get(rect), handles, i, j, base(i, j))
                               ELSE base(i, j)]]

\* restoreCanvasState: resize the canvas to the buffer and put the buffer.
restoreCanvasState(imageData) ==
  PutImageData(imageData.w, imageData.h, imageData)

\* saveToHistory keeping the entries after the cursor.
saveToHistoryKeepsRedo(hist, idx, cv) ==
  [history |-> Append(hist, Snapshot(cv)), historyIndex |-> Len(hist)]

\* saveToHistory moving the cursor one past the new tail.
saveToHistoryPastEnd(hist, idx, cv) ==
  [history |-> Append(SubSeq(hist, 1, idx + 1), Snapshot(cv)), historyIndex |-> idx + 2]

\* saveToHistory on the history and cursor of the render that made the
\* callback: drop the entries after the cursor, append a snapshot of the
\* canvas, move the cursor to the new tail.
saveToHistory(hist, idx, cv) ==
  LET newHistory == Append(SubSeq(hist, 1, idx + 1), Snapshot(cv))
  IN  [history |-> newHistory, historyIndex |-> Len(newHistory) - 1]

\* drawLine that erases along the stroke in both brush modes, original or
\* not.
drawLineUnguarded(cv, mode, size, orig, a, b) ==
  IF mode = Crop THEN cv
  ELSE [cv EXCEPT !.px = [k \in 1..(cv.w * cv.h) |->
                            Composite("destination-out",
                                      Covered(StrokeCov(Col(k, cv.w), Row(k, cv.w), a, b, size),
                                              Pixel(BlackC, 2)),
                                      cv.px[k])]]

\* drawLine: the bitmap after one segment of a stroke.  Restore without an
\* original returns early; Erase strokes with destination-out; Restore draws
\* the original, stretched to the canvas, through the clip of the path.
drawLine(cv, mode, size, orig, a, b) ==
  IF mode = Restore /\ orig = None THEN cv
  ELSE IF mode = Erase
  THEN [cv EXCEPT !.px = [k \in 1..(cv.w * cv.h) |->
                            Composite("destination-out",
                                      Covered(StrokeCov(Col(k, cv.w), Row(k, cv.w), a, b, size),
                                              Pixel(BlackC, 2)),
                                      cv.px[k])]]
  ELSE IF mode = Restore
  THEN [cv EXCEPT !.px = [k \in 1..(cv.w * cv.h) |->
                            LET i == Col(k, cv.w)
                                j == Row(k, cv.w)
                            IN  Composite("source-over",
                                          Covered(ClipCov(i, j, a, b),
                                                  Px(Get(orig), (i * Get(orig).w) \div cv.w,
                                                     (j * Get(orig).h) \div cv.h)),
                                          cv.px[k])]]
  ELSE cv

\* The globalCompositeOperation drawLine leaves in the context.
drawLineGco(g, mode, orig) ==
  IF mode = Restore /\ orig = None THEN g
  ELSE IF mode = Erase THEN "destination-out"
  ELSE IF mode = Restore THEN "source-over"
  ELSE g

\* handleApplyCrop keeping the whole original.
CropOriginalWhole(orig, rect) == orig

\* The cropped original handleApplyCrop draws on the temporary canvas:
\* the region of the original at the rectangle, unscaled.  A rectangle off
\* the pixel grid resamples: a pixel that mixes unequal neighbours is a mix.
CropOriginal(orig, rect) ==
  LET ox == ToLong(rect.x)
      oy == ToLong(rect.y)
      fx == IF rect.x % 10 = 0 THEN 0 ELSE 1
      fy == IF rect.y % 10 = 0 THEN 0 ELSE 1
      src(i, j) == { Px(orig, ox + i + di, oy + j + dj) : di \in 0..fx, dj \in 0..fy }
      mixed(i, j) == IF \A p \in src(i, j) : Alpha(p) = 2 THEN Pixel(MixC, 2) ELSE Pixel(MixC, 1)
      w == ToLong(rect.width)
      h == ToLong(rect.height)
  IN  [w |-> w, h |-> h,
       px |-> [k \in 1..(w * h) |->
                 IF Cardinality(src(Col(k, w), Row(k, w))) = 1
                 THEN Px(orig, ox + Col(k, w), oy + Row(k, w))
                 ELSE mixed(Col(k, w), Row(k, w))]]

\* ------------------------------------------------------------ crop geometry
\* getCropHandle: the handle whose hit square holds pos, tested in the
\* source's order; "" when there is none.  (width / 2 is kept exact by
\* doubling both sides.)
getCropHandle(pos, rect) ==
  LET x == rect.x
      y == rect.y
      width == rect.width
      height == rect.height
      hs == 10 * HANDLE_SIZE
      atR == pos.x > x + width - hs /\ pos.x < x + width + hs
      atL == pos.x > x - hs /\ pos.x < x + hs
      atMX == 2 * pos.x > 2 * x + width - 2 * hs /\ 2 * pos.x < 2 * x + width + 2 * hs
      atB == pos.y > y + height - hs /\ pos.y < y + height + hs
      atT == pos.y > y - hs /\ pos.y < y + hs
      atMY == 2 * pos.y > 2 * y + height - 2 * hs /\ 2 * pos.y < 2 * y + height + 2 * hs
  IN  IF atR /\ atB THEN "br"
      ELSE IF atL /\ atT THEN "tl"
      ELSE IF atR /\ atT THEN "tr"
      ELSE IF atL /\ atB THEN "bl"
      ELSE IF atMX /\ atT THEN "tm"
      ELSE IF atMX /\ atB THEN "bm"
      ELSE IF atL /\ atMY THEN "ml"
      ELSE IF atR /\ atMY THEN "mr"
      ELSE ""

\* handle.includes(ch) that takes the corner handles only.
IncludesCornersOnly(handle, ch) ==
  IF ch = "l" THEN handle \in {"tl", "bl"}
  ELSE IF ch = "r" THEN handle \in {"tr", "br"}
  ELSE IF ch = "t" THEN handle \in {"tl", "tr"}
  ELSE handle \in {"bl", "br"}

\* handle.includes(ch)
Includes(handle, ch) ==
  IF ch = "l" THEN handle \in {"tl", "bl", "ml"}
  ELSE IF ch = "r" THEN handle \in {"tr", "br", "mr"}
  ELSE IF ch = "t" THEN handle \in {"tl", "tr", "tm"}
  ELSE handle \in {"bl", "br", "bm"}

InsideRect(pos, rect) ==
  /\ pos.x > rect.x /\ pos.x < rect.x + rect.width
  /\ pos.y > rect.y /\ pos.y < rect.y + rect.height

\* The CropAction handleCropMouseDown starts at pos.
NewCropAction(pos, rect) ==
  IF rect # None /\ getCropHandle(pos, Get(rect)) # ""
  THEN [type |-> "resizing", handle |-> getCropHandle(pos, Get(rect)),
        startX |-> pos.x, startY |-> pos.y, startRect |-> rect]
  ELSE IF rect # None /\ InsideRect(pos, Get(rect))
  THEN [type |-> "moving", handle |-> "", startX |-> pos.x, startY |-> pos.y,
        startRect |-> rect]
  ELSE [type |-> "drawing", handle |-> "", startX |-> pos.x, startY |-> pos.y,
        startRect |-> None]

\* handleCropMouseMove's rectangle of a drawing action kept at the anchor,
\* its width and height signed.
MovedRectFromAnchor(act, pos) ==
  IF act.type = "drawing"
  THEN Some([x |-> act.startX, y |-> act.startY,
             width |-> pos.x - act.startX, height |-> pos.y - act.startY])
  ELSE None

\* handleCropMouseMove's rectangle without the flip of a negative width or
\* height of a resize.
MovedRectUnflipped(act, pos) ==
  LET dx == pos.x - act.startX
      dy == pos.y - act.startY
  IN  IF act.type = "drawing"
      THEN Some([x |-> Min(pos.x, act.startX), y |-> Min(pos.y, act.startY),
                 width |-> Abs(pos.x - act.startX), height |-> Abs(pos.y - act.startY)])
      ELSE IF act.type = "moving" /\ act.startRect # None
      THEN Some([Get(act.startRect) EXCEPT !.x = @ + dx, !.y = @ + dy])
      ELSE IF act.type = "resizing" /\ act.startRect # None /\ act.handle # ""
      THEN LET r == Get(act.startRect)
           IN  Some([x |-> IF Includes(act.handle, "l") THEN r.x + dx ELSE r.x,
                     y |-> IF Includes(act.handle, "t") THEN r.y + dy ELSE r.y,
                     width |-> IF Includes(act.handle, "l") THEN r.width - dx
                               ELSE IF Includes(act.handle, "r") THEN r.width + dx
                               ELSE r.width,
                     height |-> IF Includes(act.handle, "t") THEN r.height - dy
                                ELSE IF Includes(act.handle, "b") THEN r.height + dy
                                ELSE r.height])
      ELSE None

\* The rectangle handleCropMouseMove stores for the action act at pos; None
\* when it stores nothing.
MovedRect(act, pos) ==
  LET dx == pos.x - act.startX
      dy == pos.y - act.startY
  IN  IF act.type = "drawing"
      THEN Some([x |-> Min(pos.x, act.startX), y |-> Min(pos.y, act.startY),
                 width |-> Abs(pos.x - act.startX), height |-> Abs(pos.y - act.startY)])
      ELSE IF act.type = "moving" /\ act.startRect # None
      THEN Some([Get(act.startRect) EXCEPT !.x = @ + dx, !.y = @ + dy])
      ELSE IF act.type = "resizing" /\ act.startRect # None /\ act.handle # ""
      THEN LET r == Get(act.startRect)
               x1 == IF Includes(act.handle, "l") THEN r.x + dx ELSE r.x
               w1 == IF Includes(act.handle, "l") THEN r.width - dx
                     ELSE IF Includes(act.handle, "r") THEN r.width + dx ELSE r.width
               y1 == IF Includes(act.handle, "t") THEN r.y + dy ELSE r.y
               h1 == IF Includes(act.handle, "t") THEN r.height - dy
                     ELSE IF Includes(act.handle, "b") THEN r.height + dy ELSE r.height
           IN  Some([x |-> IF w1 < 0 THEN x1 + w1 ELSE x1,
                     y |-> IF h1 < 0 THEN y1 + h1 ELSE y1,
                     width |-> Abs(w1), height |-> Abs(h1)])
      ELSE None

\* The rectangle handleSetEditMode gives a canvas on entering Crop mode.
DefaultCropRect(cv) ==
  [x |-> cv.w, y |-> cv.h, width |-> 8 * cv.w, height |-> 8 * cv.h]

\* -------------------------------------------------------------------- state
VARIABLES
  editMode,          \* useState: the edit mode
  brushSettings,     \* useState: [size]
  history,           \* useState: the snapshots, history[1] is entry 0
  historyIndex,      \* useState: the cursor, -1 before the image loads
  cropRect,          \* useState: None or Some(rectangle), in tenths
  cropAction,        \* useState: None or Some(action)
  canvas,            \* the bitmap of the <canvas>
  gco,               \* the 2d context's globalCompositeOperation
  originalImageRef,  \* useRef: None or Some(bitmap of the original image)
  isDrawing,         \* useRef
  lastPoint,         \* useRef: None or Some(point)
  pendingCrops,      \* the newOriginalImage.onload callbacks not yet run
  pointerOver,       \* the mouse pointer is over the canvas
  waited,            \* user events handled since the oldest pending Apply
  sessions,          \* times Crop mode was entered so far
  tally,             \* None, or the pushes, undos and redos so far (see NextTally)
  earlyInput,        \* the user acts without waiting for the original image
  racing,            \* the user acts without waiting for a crop to complete
  pointerAt,         \* None, or the position of the last mouse event (see InputAt)
  originalImage,     \* App useState: None or Some(data URL), a URL being its MIME type
  processedImage,    \* App useState: None or Some(data URL)
  isLoading,         \* App useState
  error,             \* App useState: None or Some(message)
  key,               \* App useState: the FileUpload's key
  upload,            \* the call of handleImageUpload in flight: its position and file
  ev                 \* the handler that ran last

vars == <<editMode, brushSettings, history, historyIndex, cropRect, cropAction,
          canvas, gco, originalImageRef, isDrawing, lastPoint, pendingCrops,
          pointerOver, waited, sessions, tally, earlyInput, racing, pointerAt,
          originalImage, processedImage, isLoading, error, key, upload, ev>>

\* The state of the App component and of its upload in flight.
appVars == <<originalImage, processedImage, isLoading, error, key, upload>>

\* Pointer positions getMousePos reports: the centres of the first and of
\* the last pixel of the diagonal.
Points(cv) ==
  { [x |-> 5, y |-> 5], [x |-> 10 * (cv.w - 1) + 5, y |-> 10 * (cv.h - 1) + 5] }

\* The drags explored keep the rectangle within MaxOutside pixels of the
\* canvas.
WithinReach(rect, cv) ==
  /\ rect.x >= -10 * MaxOutside
  /\ rect.y >= -10 * MaxOutside
  /\ rect.x + rect.width <= 10 * (cv.w + MaxOutside)
  /\ rect.y + rect.height <= 10 * (cv.h + MaxOutside)

Mounted ==
  /\ editMode = Erase
  /\ brushSettings = [size |-> DefaultBrushSize]
  /\ history = <<>>
  /\ historyIndex = -1
  /\ cropRect = None
  /\ cropAction = None
  /\ canvas = BlankCanvas
  /\ gco = "source-over"
  /\ originalImageRef = None
  /\ isDrawing = FALSE
  /\ lastPoint = None
  /\ pendingCrops = <<>>
  /\ pointerOver = FALSE
  /\ waited = 0
  /\ sessions = 0
  /\ pointerAt = None
  /\ ev = "mount"

\* The upload position of an App with no call of handleImageUpload in flight.
NoUpload == [pc |-> "idle", file |-> None, base64Image |-> None]

\* The App as first rendered.
AppInitial ==
  /\ originalImage = None
  /\ processedImage = None
  /\ isLoading = FALSE
  /\ error = None
  /\ key = 0
  /\ upload = NoUpload

\* The three conditional panels of the App's render.
ErrorPanelRendered == error # None /\ ~isLoading

FileUploadRendered == originalImage = None /\ ~isLoading /\ error = None

EditorRendered == originalImage # None /\ processedImage # None /\ ~isLoading

\* The App while it shows the editor of a first, successful upload.
AppEditing ==
  /\ originalImage = Some("png")
  /\ processedImage = Some("png")
  /\ isLoading = FALSE
  /\ error = None
  /\ key = 0
  /\ upload = NoUpload

Init ==
  /\ Mounted
  /\ AppEditing
  /\ tally = None
  /\ earlyInput = FALSE
  /\ racing = FALSE

\* The processed image has decoded, and so has the original unless the user
\* does not wait for it: the editor takes user input from here on, and while
\* a cropped original is loading at most MaxWait events (MaxWaitRacing for
\* the user who does not wait).
Ready ==
  /\ Len(history) > 0
  /\ originalImageRef # None \/ earlyInput
  /\ pendingCrops = <<>> \/ waited < (IF racing THEN MaxWaitRacing ELSE MaxWait)

\* The tally after the handler called name.  It is kept only when it starts
\* as a record: the events so far were `pushes` history pushes (the load's
\* included), then `undos` clicks of Undo, then `redos` clicks of Redo, then
\* `after` (at most one) more push.  It is None once they were anything else.
NextTally(name) ==
  LET t == Get(tally)
      pushed == \/ name \in {"img.onload", "cropOnload"}
                \/ name \in {"mouseup", "mouseleave"} /\ editMode # Crop /\ isDrawing
  IN  IF tally = None THEN None
      ELSE IF pushed
      THEN IF t.after > 0 THEN None
           ELSE IF t.undos = 0 /\ t.redos = 0 THEN Some([t EXCEPT !.pushes = @ + 1])
           ELSE Some([t EXCEPT !.after = 1])
      ELSE IF name = "undo"
      THEN IF t.after = 0 /\ t.redos = 0 /\ t.undos < t.pushes
           THEN Some([t EXCEPT !.undos = @ + 1]) ELSE None
      ELSE IF name = "redo"
      THEN IF t.after = 0 /\ t.redos < t.undos
           THEN Some([t EXCEPT !.redos = @ + 1]) ELSE None
      ELSE tally

\* Book-keeping of a user event handled by the handler called name.
Handled(name) ==
  /\ ev' = name
  /\ tally' = NextTally(name)
  /\ UNCHANGED <<earlyInput, racing, appVars>>
  /\ waited' = IF pendingCrops = <<>> \/ pendingCrops' = <<>> THEN 0 ELSE waited + 1

Input(name) ==
  /\ Handled(name)
  /\ UNCHANGED pointerAt

\* The same for a mouse event at pos, of a run that records positions.
InputAt(name, pos) ==
  /\ Handled(name)
  /\ pointerAt' = Some(pos)

\* Buttons of the toolbar are clicked with the pointer off the canvas.
Toolbar(name) ==
  /\ ~pointerOver
  /\ UNCHANGED pointerOver
  /\ Input(name)

\* ------------------------------------------------------------------ actions
\* img.onload of the mount effect: size the canvas to the processed image,
\* draw it, and start the history with its snapshot.  The state change
\* re-runs the redrawCanvas effect.
ProcessedOnload ==
  /\ history = <<>>
  /\ LET drawn == ProcessedImage
         initialImageData == Snapshot(drawn)
     IN  /\ history' = <<initialImageData>>
         /\ historyIndex' = 0
         /\ gco' = "source-over"
         /\ canvas' = redrawCanvas(drawn, "source-over", <<initialImageData>>, 0,
                                   editMode, cropRect)
  /\ ev' = "img.onload"
  /\ tally' = NextTally("img.onload")
  /\ UNCHANGED <<earlyInput, racing, pointerAt, appVars>>
  /\ UNCHANGED <<editMode, brushSettings, cropRect, cropAction, originalImageRef,
                 isDrawing, lastPoint, pendingCrops, pointerOver, waited, sessions>>

\* originalImg.onload of the mount effect.
OriginalOnload ==
  /\ originalImageRef = None
  /\ originalImageRef' = Some(OriginalImage)
  /\ ev' = "originalImg.onload"
  /\ UNCHANGED <<tally, earlyInput, racing, pointerAt, appVars>>
  /\ UNCHANGED <<editMode, brushSettings, history, historyIndex, cropRect, cropAction,
                 canvas, gco, isDrawing, lastPoint, pendingCrops, pointerOver, waited,
                 sessions>>

\* startDrawing (the canvas's onMouseDown outside Crop mode).
startDrawing(pos) ==
  /\ isDrawing' = TRUE
  /\ lastPoint' = Some(pos)
  /\ canvas' = drawLine(canvas, editMode, brushSettings.size, originalImageRef, pos, pos)
  /\ gco' = drawLineGco(gco, editMode, originalImageRef)
  /\ UNCHANGED <<editMode, brushSettings, history, historyIndex, cropRect, cropAction,
                 originalImageRef, pendingCrops, sessions>>

\* handleCropMouseDown (the canvas's onMouseDown in Crop mode).
handleCropMouseDown(pos) ==
  /\ cropAction' = Some(NewCropAction(pos, cropRect))
  /\ UNCHANGED <<editMode, brushSettings, history, historyIndex, cropRect, canvas, gco,
                 originalImageRef, isDrawing, lastPoint, pendingCrops, sessions>>

MouseDown ==
  /\ Ready
  /\ pointerOver
  /\ \E pos \in Points(canvas) :
       IF editMode = Crop THEN handleCropMouseDown(pos) ELSE startDrawing(pos)
  /\ UNCHANGED pointerOver
  /\ Input("mousedown")

\* draw saving every segment to the history.
drawSavingEach(pos) ==
  IF isDrawing /\ lastPoint # None
  THEN LET drawn == drawLine(canvas, editMode, brushSettings.size, originalImageRef,
                             Get(lastPoint), pos)
           saved == saveToHistory(history, historyIndex, drawn)
       IN  /\ historyIndex + 2 <= MaxHist
           /\ canvas' = drawn
           /\ history' = saved.history
           /\ historyIndex' = saved.historyIndex
           /\ gco' = drawLineGco(gco, editMode, originalImageRef)
           /\ lastPoint' = Some(pos)
           /\ UNCHANGED <<editMode, brushSettings, cropRect, cropAction, originalImageRef,
                          isDrawing, pendingCrops, sessions>>
  ELSE UNCHANGED <<editMode, brushSettings, history, historyIndex, cropRect, cropAction,
                   canvas, gco, originalImageRef, isDrawing, lastPoint, pendingCrops,
                   sessions>>

\* draw (the canvas's onMouseMove outside Crop mode).
draw(pos) ==
  IF isDrawing /\ lastPoint # None
  THEN /\ canvas' = drawLine(canvas, editMode, brushSettings.size, originalImageRef,
                             Get(lastPoint), pos)
       /\ gco' = drawLineGco(gco, editMode, originalImageRef)
       /\ lastPoint' = Some(pos)
       /\ UNCHANGED <<editMode, brushSettings, history, historyIndex, cropRect,
                      cropAction, originalImageRef, isDrawing, pendingCrops, sessions>>
  ELSE UNCHANGED <<editMode, brushSettings, history, historyIndex, cropRect, cropAction,
                   canvas, gco, originalImageRef, isDrawing, lastPoint, pendingCrops,
                   sessions>>

\* handleCropMouseMove that moves the rectangle it finds, not the one of the
\* press.
handleCropMouseMoveCumulative(pos) ==
  IF cropAction # None /\ MovedRect(Get(cropAction), pos) # None
  THEN LET act == Get(cropAction)
           moved == IF act.type = "moving"
                    THEN Some([Get(cropRect) EXCEPT !.x = @ + pos.x - act.startX,
                                                    !.y = @ + pos.y - act.startY])
                    ELSE MovedRect(act, pos)
       IN  /\ WithinReach(Get(moved), canvas)
           /\ cropRect' = moved
           /\ canvas' = redrawCanvas(canvas, gco, history, historyIndex, editMode, cropRect')
           /\ UNCHANGED <<editMode, brushSettings, history, historyIndex, cropAction, gco,
                          originalImageRef, isDrawing, lastPoint, pendingCrops, sessions>>
  ELSE UNCHANGED <<editMode, brushSettings, history, historyIndex, cropRect, cropAction,
                   canvas, gco, originalImageRef, isDrawing, lastPoint, pendingCrops,
                   sessions>>

\* handleCropMouseMove (the canvas's onMouseMove in Crop mode): store the
\* rectangle of the action in progress; the new rectangle re-runs the
\* redrawCanvas effect.
handleCropMouseMove(pos) ==
  IF cropAction # None /\ MovedRect(Get(cropAction), pos) # None
  THEN /\ WithinReach(Get(MovedRect(Get(cropAction), pos)), canvas)
       /\ cropRect' = MovedRect(Get(cropAction), pos)
       /\ canvas' = redrawCanvas(canvas, gco, history, historyIndex, editMode, cropRect')
       /\ UNCHANGED <<editMode, brushSettings, history, historyIndex, cropAction, gco,
                      originalImageRef, isDrawing, lastPoint, pendingCrops, sessions>>
  ELSE UNCHANGED <<editMode, brushSettings, history, historyIndex, cropRect, cropAction,
                   canvas, gco, originalImageRef, isDrawing, lastPoint, pendingCrops,
                   sessions>>

\* A mousemove reaches the canvas whenever the pointer is over it, and
\* brings the pointer over it.
MouseMove ==
  /\ Ready
  /\ \E pos \in Points(canvas) :
       IF editMode = Crop THEN handleCropMouseMove(pos) ELSE draw(pos)
  /\ pointerOver' = TRUE
  /\ Input("mousemove")

\* stopDrawing (the canvas's onMouseUp and onMouseLeave outside Crop mode):
\* a stroke in progress is saved to the history, which re-runs the
\* redrawCanvas effect.
stopDrawing ==
  /\ isDrawing => historyIndex + 2 <= MaxHist
  /\ IF isDrawing
     THEN LET saved == saveToHistory(history, historyIndex, canvas)
          IN  /\ history' = saved.history
              /\ historyIndex' = saved.historyIndex
              /\ canvas' = redrawCanvas(canvas, gco, saved.history, saved.historyIndex,
                                        editMode, cropRect)
     ELSE UNCHANGED <<history, historyIndex, canvas>>
  /\ isDrawing' = FALSE
  /\ lastPoint' = None
  /\ UNCHANGED <<editMode, brushSettings, cropRect, cropAction, gco, originalImageRef,
                 pendingCrops, sessions>>

\* handleCropMouseUp (the canvas's onMouseUp and onMouseLeave in Crop mode).
handleCropMouseUp ==
  /\ cropAction' = None
  /\ UNCHANGED <<editMode, brushSettings, history, historyIndex, cropRect, canvas, gco,
                 originalImageRef, isDrawing, lastPoint, pendingCrops, sessions>>

MouseUp ==
  /\ Ready
  /\ pointerOver
  /\ IF editMode = Crop THEN handleCropMouseUp ELSE stopDrawing
  /\ UNCHANGED pointerOver
  /\ Input("mouseup")

MouseLeave ==
  /\ Ready
  /\ pointerOver
  /\ IF editMode = Crop THEN handleCropMouseUp ELSE stopDrawing
  /\ pointerOver' = FALSE
  /\ Input("mouseleave")

\* handleUndo that stops one entry early.
handleUndoStopsEarly ==
  /\ Ready
  /\ editMode # Crop
  /\ IF historyIndex > 1
     THEN LET newIndex == historyIndex - 1
          IN  /\ historyIndex' = newIndex
              /\ gco' = "source-over"
              /\ canvas' = redrawCanvas(restoreCanvasState(history[newIndex + 1]),
                                        "source-over", history, newIndex, editMode, cropRect)
     ELSE UNCHANGED <<historyIndex, gco, canvas>>
  /\ UNCHANGED <<editMode, brushSettings, history, cropRect, cropAction,
                 originalImageRef, isDrawing, lastPoint, pendingCrops, sessions>>
  /\ Toolbar("undo")

\* handleUndo; the Undo button is rendered outside Crop mode only.
\* restoreCanvasState resizes the canvas, which resets the 2d context.
handleUndo ==
  /\ Ready
  /\ editMode # Crop
  /\ IF historyIndex > 0
     THEN LET newIndex == historyIndex - 1
          IN  /\ historyIndex' = newIndex
              /\ gco' = "source-over"
              /\ canvas' = redrawCanvas(restoreCanvasState(history[newIndex + 1]),
                                        "source-over", history, newIndex, editMode, cropRect)
     ELSE UNCHANGED <<historyIndex, gco, canvas>>
  /\ UNCHANGED <<editMode, brushSettings, history, cropRect, cropAction,
                 originalImageRef, isDrawing, lastPoint, pendingCrops, sessions>>
  /\ Toolbar("undo")

\* handleRedo that jumps to the newest entry.
handleRedoToTail ==
  /\ Ready
  /\ editMode # Crop
  /\ IF historyIndex < Len(history) - 1
     THEN LET newIndex == Len(history) - 1
          IN  /\ historyIndex' = newIndex
              /\ gco' = "source-over"
              /\ canvas' = redrawCanvas(restoreCanvasState(history[newIndex + 1]),
                                        "source-over", history, newIndex, editMode, cropRect)
     ELSE UNCHANGED <<historyIndex, gco, canvas>>
  /\ UNCHANGED <<editMode, brushSettings, history, cropRect, cropAction,
                 originalImageRef, isDrawing, lastPoint, pendingCrops, sessions>>
  /\ Toolbar("redo")

\* handleRedo; the Redo button is rendered outside Crop mode only.
handleRedo ==
  /\ Ready
  /\ editMode # Crop
  /\ IF historyIndex < Len(history) - 1
     THEN LET newIndex == historyIndex + 1
          IN  /\ historyIndex' = newIndex
              /\ gco' = "source-over"
              /\ canvas' = redrawCanvas(restoreCanvasState(history[newIndex + 1]),
                                        "source-over", history, newIndex, editMode, cropRect)
     ELSE UNCHANGED <<historyIndex, gco, canvas>>
  /\ UNCHANGED <<editMode, brushSettings, history, cropRect, cropAction,
                 originalImageRef, isDrawing, lastPoint, pendingCrops, sessions>>
  /\ Toolbar("redo")

\* handleSetEditMode; the Restore, Erase and Crop buttons are rendered
\* outside Crop mode only.  A changed mode or rectangle re-runs the
\* redrawCanvas effect.
handleSetEditMode ==
  /\ Ready
  /\ editMode # Crop
  /\ \E mode \in EditMode :
       /\ editMode' = mode
       /\ cropRect' = IF mode = Crop /\ cropRect = None THEN Some(DefaultCropRect(canvas))
                      ELSE IF mode # Crop THEN None
                      ELSE cropRect
       /\ canvas' = IF mode # editMode \/ cropRect' # cropRect
                    THEN redrawCanvas(canvas, gco, history, historyIndex, mode, cropRect')
                    ELSE canvas
       /\ mode = Crop => sessions < MaxSessions
       /\ sessions' = IF mode = Crop THEN sessions + 1 ELSE sessions
  /\ UNCHANGED <<brushSettings, history, historyIndex, cropAction, gco, originalImageRef,
                 isDrawing, lastPoint, pendingCrops>>
  /\ Toolbar("setEditMode")

\* onSetBrushSettings; the size slider is rendered outside Crop mode only.
SetBrushSettings ==
  /\ Ready
  /\ editMode # Crop
  /\ \E size \in BrushSizes : brushSettings' = [size |-> size]
  /\ UNCHANGED <<editMode, history, historyIndex, cropRect, cropAction, canvas, gco,
                 originalImageRef, isDrawing, lastPoint, pendingCrops, sessions>>
  /\ Toolbar("setBrushSettings")

\* handleApplyCrop, up to setting newOriginalImage.src; the Apply button is
\* rendered in Crop mode only.  It returns early without a rectangle or an
\* original, and getImageData throws on an empty rectangle; otherwise the
\* onload callback is left outstanding, closed over this render's
\* rectangle, history and cursor.
handleApplyCrop ==
  /\ Ready
  /\ editMode = Crop
  /\ IF cropRect = None \/ originalImageRef = None
     THEN UNCHANGED <<pendingCrops, sessions>>
     ELSE LET r == Get(cropRect)
          IN  IF GetImageDataThrows(r.width, r.height)
              THEN UNCHANGED <<pendingCrops, sessions>>
              ELSE /\ Len(pendingCrops) < (IF racing THEN MaxPendingRacing ELSE MaxPending)
                   /\ historyIndex + 2 <= MaxHist
                   /\ UNCHANGED sessions
                   /\ pendingCrops' = Append(pendingCrops,
                        [cropRect |-> r,
                         croppedImageData |->
                           GetImageData(canvas, r.x, r.y, r.width, r.height),
                         newOriginalImage |-> CropOriginal(Get(originalImageRef), r),
                         history |-> history,
                         historyIndex |-> historyIndex])
  /\ UNCHANGED <<editMode, brushSettings, history, historyIndex, cropRect, cropAction,
                 canvas, gco, originalImageRef, isDrawing, lastPoint>>
  /\ Toolbar("applyCrop")

\* newOriginalImage.onload that clears the rectangle but stays in the mode
\* it finds.
CropOnloadKeepsMode ==
  /\ \E k \in 1..Len(pendingCrops) :
       LET c == pendingCrops[k]
           put == PutImageData(ToLong(c.cropRect.width), ToLong(c.cropRect.height),
                               c.croppedImageData)
           saved == saveToHistory(c.history, c.historyIndex, put)
       IN  /\ originalImageRef' = Some(c.newOriginalImage)
           /\ gco' = "source-over"
           /\ history' = saved.history
           /\ historyIndex' = saved.historyIndex
           /\ cropRect' = None
           /\ editMode' = editMode
           /\ canvas' = redrawCanvas(put, "source-over", saved.history,
                                     saved.historyIndex, editMode, None)
           /\ pendingCrops' = SubSeq(pendingCrops, 1, k - 1)
                              \o SubSeq(pendingCrops, k + 1, Len(pendingCrops))
  /\ waited' = IF pendingCrops' = <<>> THEN 0 ELSE waited
  /\ ev' = "cropOnload"
  /\ tally' = NextTally("cropOnload")
  /\ UNCHANGED <<earlyInput, racing, pointerAt, appVars>>
  /\ UNCHANGED <<brushSettings, cropAction, isDrawing, lastPoint, pointerOver, sessions>>

\* newOriginalImage.onload of handleApplyCrop: replace the original, resize
\* the canvas to the rectangle and put the cropped data, save to the history
\* of the render that clicked Apply, clear the rectangle, go to Erase.
CropOnload ==
  /\ \E k \in 1..Len(pendingCrops) :
       LET c == pendingCrops[k]
           put == PutImageData(ToLong(c.cropRect.width), ToLong(c.cropRect.height),
                               c.croppedImageData)
           saved == saveToHistory(c.history, c.historyIndex, put)
       IN  /\ originalImageRef' = Some(c.newOriginalImage)
           /\ gco' = "source-over"
           /\ history' = saved.history
           /\ historyIndex' = saved.historyIndex
           /\ cropRect' = None
           /\ editMode' = Erase
           /\ canvas' = redrawCanvas(put, "source-over", saved.history,
                                     saved.historyIndex, Erase, None)
           /\ pendingCrops' = SubSeq(pendingCrops, 1, k - 1)
                              \o SubSeq(pendingCrops, k + 1, Len(pendingCrops))
  /\ waited' = IF pendingCrops' = <<>> THEN 0 ELSE waited
  /\ ev' = "cropOnload"
  /\ tally' = NextTally("cropOnload")
  /\ UNCHANGED <<earlyInput, racing, pointerAt, appVars>>
  /\ UNCHANGED <<brushSettings, cropAction, isDrawing, lastPoint, pointerOver, sessions>>

\* handleCancelCrop that leaves Crop mode but keeps the rectangle.
handleCancelCropKeepsRect ==
  /\ Ready
  /\ editMode = Crop
  /\ cropRect' = cropRect
  /\ editMode' = Erase
  /\ canvas' = redrawCanvas(canvas, gco, history, historyIndex, Erase, cropRect)
  /\ UNCHANGED <<brushSettings, history, historyIndex, cropAction, gco, originalImageRef,
                 isDrawing, lastPoint, pendingCrops, sessions>>
  /\ Toolbar("cancelCrop")

\* handleCancelCrop; the Cancel button is rendered in Crop mode only.
handleCancelCrop ==
  /\ Ready
  /\ editMode = Crop
  /\ cropRect' = None
  /\ editMode' = Erase
  /\ canvas' = redrawCanvas(canvas, gco, history, historyIndex, Erase, None)
  /\ UNCHANGED <<brushSettings, history, historyIndex, cropAction, gco, originalImageRef,
                 isDrawing, lastPoint, pendingCrops, sessions>>
  /\ Toolbar("cancelCrop")

\* canUndo and canRedo, the props that enable the Undo and Redo buttons.
canUndo == historyIndex > 0

\* canRedo that allows a step onto the end of the history.
canRedoPastEnd == historyIndex < Len(history)

canRedo == historyIndex < Len(history) - 1

\* ------------------------------------------------------------ pending crops
\* The editor of a user who keeps working, at the default brush size, while
\* applied crops wait for their cropped originals to load.
InitRacing ==
  /\ Mounted
  /\ AppEditing
  /\ tally = None
  /\ earlyInput = FALSE
  /\ racing = TRUE

NextRacing ==
  \/ ProcessedOnload
  \/ OriginalOnload
  \/ MouseDown
  \/ MouseMove
  \/ MouseUp
  \/ MouseLeave
  \/ handleUndo
  \/ handleRedo
  \/ handleSetEditMode
  \/ handleApplyCrop
  \/ CropOnload
  \/ handleCancelCrop

SpecRacing == InitRacing /\ [][NextRacing]_vars

\* ------------------------------------------------------------ crop gestures
\* The decoded images of an upload of CropW x CropH: flat opaque pictures.
LargeProcessed ==
  [w |-> CropW, h |-> CropH, px |-> [k \in 1..(CropW * CropH) |-> Pixel(1, 2)]]

LargeOriginal ==
  [w |-> CropW, h |-> CropH, px |-> [k \in 1..(CropW * CropH) |-> Pixel(2, 2)]]

\* Positions of the presses of the crop gestures, by the rectangle Crop mode
\* opens with: one on each of its eight handles, two in its body clear of
\* the handles, one outside it clear of the handles, and one in its body
\* 7 pixels right of and below its top left corner.
CropPresses(cv) ==
  LET r == DefaultCropRect(cv)
      l == r.x
      t == r.y
      rt == r.x + r.width
      b == r.y + r.height
      mx == r.x + r.width \div 2
      my == r.y + r.height \div 2
  IN  { [x |-> l - 40, y |-> t - 40], [x |-> rt + 40, y |-> t - 40],
        [x |-> l - 40, y |-> b + 40], [x |-> rt + 40, y |-> b + 40],
        [x |-> mx, y |-> t], [x |-> mx, y |-> b],
        [x |-> l, y |-> my], [x |-> rt, y |-> my],
        [x |-> mx, y |-> my], [x |-> mx + 20, y |-> my - 10],
        [x |-> l + 120, y |-> t - 30], [x |-> l + 70, y |-> t + 70] }

\* Positions of the moves of the crop gestures, by the kind of the action in
\* progress: a drag that draws goes towards the four corners of the canvas,
\* one that resizes to two opposite corners and near the centre, one that
\* moves, and a move with no action, stays about the centre.
CropMoves(cv, type) ==
  LET r == DefaultCropRect(cv)
      rt == r.x + r.width
      b == r.y + r.height
      mx == r.x + r.width \div 2
      my == r.y + r.height \div 2
      tl == [x |-> r.x - 40, y |-> r.y - 40]
      br == [x |-> rt + 40, y |-> b + 40]
  IN  IF type = "drawing"
      THEN {tl, [x |-> rt + 40, y |-> r.y - 40], [x |-> r.x - 40, y |-> b + 40], br}
      ELSE IF type = "resizing"
      THEN {tl, br, [x |-> mx + 20, y |-> my - 10]}
      ELSE {[x |-> mx, y |-> my], [x |-> mx + 20, y |-> my - 10],
            [x |-> mx - 30, y |-> my + 20]}

\* The editor of the large upload once both of its images have loaded.
InitCrop ==
  /\ editMode = Erase
  /\ brushSettings = [size |-> DefaultBrushSize]
  /\ history = <<Snapshot(LargeProcessed)>>
  /\ historyIndex = 0
  /\ cropRect = None
  /\ cropAction = None
  /\ canvas = LargeProcessed
  /\ gco = "source-over"
  /\ originalImageRef = Some(LargeOriginal)
  /\ isDrawing = FALSE
  /\ lastPoint = None
  /\ pendingCrops = <<>>
  /\ pointerOver = FALSE
  /\ waited = 0
  /\ sessions = 0
  /\ pointerAt = None
  /\ ev = "originalImg.onload"
  /\ AppEditing
  /\ tally = None
  /\ earlyInput = FALSE
  /\ racing = FALSE

\* The canvas's onMouseDown in Crop mode; each gesture explored starts on
\* the rectangle Crop mode opens with.
CropMouseDown ==
  /\ Ready
  /\ pointerOver
  /\ editMode = Crop
  /\ cropRect = Some(DefaultCropRect(canvas))
  /\ \E pos \in CropPresses(canvas) :
       /\ handleCropMouseDown(pos)
       /\ InputAt("mousedown", pos)
  /\ UNCHANGED pointerOver

\* The canvas's onMouseMove in Crop mode.  The moves explored are those of
\* a drag, and those that bring the pointer over the canvas for a press.
CropMouseMove ==
  /\ Ready
  /\ editMode = Crop
  /\ cropAction # None \/ (~pointerOver /\ cropRect = Some(DefaultCropRect(canvas)))
  /\ \E pos \in CropMoves(canvas, IF cropAction = None THEN "" ELSE Get(cropAction).type) :
       /\ handleCropMouseMove(pos)
       /\ InputAt("mousemove", pos)
  /\ pointerOver' = TRUE

NextCrop ==
  \/ handleSetEditMode
  \/ CropMouseDown
  \/ CropMouseMove
  \/ MouseUp
  \/ MouseLeave
  \/ handleCancelCrop

SpecCrop == InitCrop /\ [][NextCrop]_vars

\* ------------------------------------------------------------------ the App
\* The image types MimeTypeRegex accepts in a data URL.
MimeTypes == {"png", "jpeg", "webp"}

\* The types of the data URLs a file is converted to.
UrlTypes == MimeTypes \cup {"gif"}

\* The files a user uploads.
Files == {"a", "b"}

\* The outcomes of removeBackground: the format check throws before the
\* request; the request returns the image data, or throws an error that is
\* wrapped, or something that is not an Error.
removeBackground(base64Image) ==
  IF base64Image \notin MimeTypes
  THEN {[ok |-> FALSE, message |-> "Invalid image format. Only PNG, JPEG, and WEBP are supported."]}
  ELSE {[ok |-> TRUE, message |-> ""],
        [ok |-> FALSE, message |-> "The API returned an error"],
        [ok |-> FALSE, message |-> "An unknown API error occurred."]}

\* Book-keeping of a step of the App: the editor's state is not its own.
AppStep(name) ==
  /\ ev' = name
  /\ UNCHANGED <<editMode, brushSettings, history, historyIndex, cropRect, cropAction,
                 canvas, gco, originalImageRef, isDrawing, lastPoint, pendingCrops,
                 pointerOver, waited, sessions, tally, earlyInput, racing, pointerAt>>

\* handleImageUpload up to its first await, called by the FileUpload.
handleImageUpload ==
  /\ FileUploadRendered
  /\ \E file \in Files :
       upload' = [pc |-> "fileToBase64", file |-> Some(file), base64Image |-> None]
  /\ isLoading' = TRUE
  /\ error' = None
  /\ processedImage' = None
  /\ UNCHANGED <<originalImage, key>>
  /\ AppStep("handleImageUpload")

\* The catch block's first statement, for a thrown error with this message
\* (an err that is not an Error has the message of the unknown error).
Catch(errorMessage) ==
  /\ error' = Some(<<"Failed to process image.", errorMessage>>)
  /\ upload' = [upload EXCEPT !.pc = "catch"]
  /\ UNCHANGED <<originalImage, processedImage, isLoading, key>>

\* await fileToBase64(file) settles: the data URL becomes originalImage, or
\* the rejection is caught.
FileConverted ==
  /\ upload.pc = "fileToBase64"
  /\ \/ \E base64Image \in UrlTypes :
          /\ originalImage' = Some(base64Image)
          /\ upload' = [upload EXCEPT !.pc = "removeBackground",
                                      !.base64Image = Some(base64Image)]
          /\ UNCHANGED <<processedImage, isLoading, error, key>>
     \/ \E errorMessage \in {"The file could not be read", "An unknown error occurred."} :
          Catch(errorMessage)
  /\ AppStep("fileToBase64")

\* await removeBackground(base64Image) settles: the result becomes
\* processedImage, or the error is caught.
BackgroundRemoved ==
  /\ upload.pc = "removeBackground"
  /\ \E r \in removeBackground(Get(upload.base64Image)) :
       IF r.ok
       THEN /\ processedImage' = Some("png")
            /\ upload' = [upload EXCEPT !.pc = "finally"]
            /\ UNCHANGED <<originalImage, isLoading, error, key>>
       ELSE Catch(r.message)
  /\ AppStep("removeBackground")

\* The catch block that keeps the original image of the failed upload.
CatchKeepsOriginal ==
  /\ upload.pc = "catch"
  /\ upload' = [upload EXCEPT !.pc = "finally"]
  /\ UNCHANGED <<originalImage, processedImage, isLoading, error, key>>
  /\ AppStep("catch")

\* The rest of the catch block: setOriginalImage(null).
CatchRollback ==
  /\ upload.pc = "catch"
  /\ originalImage' = None
  /\ upload' = [upload EXCEPT !.pc = "finally"]
  /\ UNCHANGED <<processedImage, isLoading, error, key>>
  /\ AppStep("catch")

\* The finally block, which ends the call.
Finally ==
  /\ upload.pc = "finally"
  /\ isLoading' = FALSE
  /\ upload' = NoUpload
  /\ UNCHANGED <<originalImage, processedImage, error, key>>
  /\ AppStep("finally")

\* handleReset, called by Try Again of the error panel and by Start Over of
\* the editor's toolbar.
handleReset ==
  /\ ErrorPanelRendered \/ EditorRendered
  /\ key < MaxKey
  /\ originalImage' = None
  /\ processedImage' = None
  /\ error' = None
  /\ isLoading' = FALSE
  /\ key' = key + 1
  /\ UNCHANGED upload
  /\ AppStep("handleReset")

\* The App from its first render, the editor it shows left alone.
InitApp ==
  /\ Mounted
  /\ AppInitial
  /\ tally = None
  /\ earlyInput = FALSE
  /\ racing = FALSE

NextApp ==
  \/ handleImageUpload
  \/ FileConverted
  \/ BackgroundRemoved
  \/ CatchRollback
  \/ Finally
  \/ handleReset

SpecApp == InitApp /\ [][NextApp]_vars

\* ------------------------------------------------------------- the editor

Next ==
  \/ ProcessedOnload
  \/ OriginalOnload
  \/ MouseDown
  \/ MouseMove
  \/ MouseUp
  \/ MouseLeave
  \/ handleUndo
  \/ handleRedo
  \/ handleSetEditMode
  \/ SetBrushSettings
  \/ handleApplyCrop
  \/ CropOnload
  \/ handleCancelCrop

Spec == Init /\ [][Next]_vars

\* The editor used without its crop tool, with the tally kept.
InitHistory ==
  /\ Mounted
  /\ AppEditing
  /\ tally = Some([pushes |-> 0, undos |-> 0, redos |-> 0, after |-> 0])
  /\ earlyInput = FALSE
  /\ racing = FALSE

NextHistory ==
  \/ ProcessedOnload
  \/ OriginalOnload
  \/ MouseDown
  \/ MouseMove
  \/ MouseUp
  \/ MouseLeave
  \/ handleUndo
  \/ handleRedo
  \/ handleSetEditMode /\ editMode' # Crop
  \/ SetBrushSettings

SpecHistory == InitHistory /\ [][NextHistory]_vars

\* The editor used without its crop tool by a user who does not wait for
\* the original image.
InitEarly ==
  /\ Mounted
  /\ AppEditing
  /\ tally = None
  /\ earlyInput = TRUE
  /\ racing = FALSE

SpecEarly == InitEarly /\ [][NextHistory]_vars

\* ------------------------------------------------------------------- claims
\* The step is a stroke's end that saves to the history.
StrokePush == ev' \in {"mouseup", "mouseleave"} /\ editMode # Crop /\ isDrawing

\* C1: a history push made with the cursor at index c drops every entry
\* after c and appends the snapshot of the canvas: afterwards the length is
\* c + 2, the cursor is length - 1 and the entries 0..c are the old ones.
C1_PushTruncatesThenAppends ==
  [][StrokePush =>
       /\ Len(history') = historyIndex + 2
       /\ historyIndex' = Len(history') - 1
       /\ SubSeq(history', 1, historyIndex + 1) = SubSeq(history, 1, historyIndex + 1)
       /\ history'[historyIndex + 2] = canvas]_vars

\* A push made after two undos on a three-entry history left two entries.
C1_Witness ==
  /\ tally = Some([pushes |-> 3, undos |-> 2, redos |-> 0, after |-> 1])
  /\ ev \in {"mouseup", "mouseleave"}
  /\ Len(history) = 2
  /\ historyIndex = 1

\* C2: Undo with the cursor above 0 moves it down by one and shows the buffer
\* at the new cursor, Redo with the cursor below length - 1 moves it up by
\* one and shows that buffer; at the bound either leaves the cursor, the
\* history and the canvas as they were.
C2_UndoRedoStepByOne ==
  [][/\ ev' = "undo" =>
          /\ history' = history
          /\ IF historyIndex > 0
             THEN historyIndex' = historyIndex - 1 /\ canvas' = history[historyIndex]
             ELSE UNCHANGED <<historyIndex, canvas>>
     /\ ev' = "redo" =>
          /\ history' = history
          /\ IF historyIndex < Len(history) - 1
             THEN historyIndex' = historyIndex + 1 /\ canvas' = history[historyIndex + 2]
             ELSE UNCHANGED <<historyIndex, canvas>>]_vars

\* After a stroke: an undo, an undo at cursor 0, a redo, a redo at the tail.
C2_Witness ==
  /\ tally = Some([pushes |-> 2, undos |-> 2, redos |-> 2, after |-> 0])
  /\ ev = "redo"
  /\ historyIndex = 1
  /\ history[1] # history[2]
  /\ canvas = history[2]

\* The step is the last of N pushes, then U clicks of Undo, then R of Redo.
TalliedStep == tally' # tally /\ tally' # None /\ Get(tally').after = 0

\* C3 as stated: after N pushes, then U <= N undos, then R <= U redos, the
\* canvas shows the buffer at history index N - 1 - U + R (when there is
\* such an index).
C3_AsStated ==
  [][TalliedStep =>
       LET t == Get(tally')
           k == t.pushes - 1 - t.undos + t.redos
       IN  k >= 0 => k < Len(history') /\ canvas' = history'[k + 1]]_vars

\* C3 amended: the same for U <= N - 1, and the cursor is that index.
C3_UndosBelowPushes ==
  [][(TalliedStep /\ Get(tally').undos <= Get(tally').pushes - 1) =>
       LET t == Get(tally')
           k == t.pushes - 1 - t.undos + t.redos
       IN  /\ k \in 0..(Len(history') - 1)
           /\ historyIndex' = k
           /\ canvas' = history'[k + 1]]_vars

\* Three pushes, two undos and a redo, over three different buffers.
C3_Witness ==
  /\ tally = Some([pushes |-> 3, undos |-> 2, redos |-> 1, after |-> 0])
  /\ ev = "redo"
  /\ history[1] # history[2]
  /\ history[2] # history[3]
  /\ history[1] # history[3]
  /\ canvas = history[2]

\* C4: right after a history push (a stroke's or an applied crop's), an undo
\* or a redo, the canvas has the pixels, the width and the height of the
\* history buffer at the cursor.
C4_CanvasShowsCursorEntry ==
  [][(StrokePush \/ ev' \in {"cropOnload", "undo", "redo"}) =>
       /\ historyIndex' + 1 \in 1..Len(history')
       /\ canvas'.w = history'[historyIndex' + 1].w
       /\ canvas'.h = history'[historyIndex' + 1].h
       /\ canvas'.px = history'[historyIndex' + 1].px]_vars

\* An undo across an applied crop gave the canvas its larger size back.
C4_Witness ==
  /\ ev = "undo"
  /\ Len(history) = 2
  /\ historyIndex = 0
  /\ history[2].w < history[1].w
  /\ canvas.w = history[1].w
  /\ canvas.px = history[1].px

\* C5: from the load of the processed image on, the history has an entry
\* and the cursor is an index of it.
C5_CursorWithinHistory ==
  [][(ev' = "img.onload" \/ Len(history) >= 1) =>
       /\ Len(history') >= 1
       /\ 0 <= historyIndex'
       /\ historyIndex' < Len(history')]_vars

\* A stroke, an applied crop, two undos and a redo.
C5_Witness ==
  /\ ev = "redo"
  /\ Len(history) = 3
  /\ historyIndex = 1
  /\ history[3].w < history[1].w

\* C6: whenever the original image is available (and the processed image has
\* sized the canvas), the original and the canvas have the same width and
\* the same height.
C6_SurfacesShareSize ==
  (originalImageRef # None /\ history # <<>>) =>
    /\ Get(originalImageRef).w = canvas.w
    /\ Get(originalImageRef).h = canvas.h

\* What a mouseup or a mouseleave leaves of the history, the cursor, the
\* canvas and the stroke: a stroke in progress is saved once and ended.
StrokeCommit ==
  IF editMode # Crop /\ isDrawing
  THEN <<Append(SubSeq(history, 1, historyIndex + 1), canvas), historyIndex + 1, canvas,
         FALSE, None>>
  ELSE <<history, historyIndex, canvas, isDrawing, lastPoint>>

\* C7: a stroke is saved to the history once, by the mouseup or mouseleave
\* that ends it, and both end it alike; a mousedown or a mousemove saves
\* nothing, nor does a mouseup or mouseleave with no stroke in progress.
C7_OnePushPerStroke ==
  [][/\ ev' \in {"mousedown", "mousemove"} => UNCHANGED <<history, historyIndex>>
     /\ ev' \in {"mouseup", "mouseleave"} =>
          /\ <<history', historyIndex', canvas', isDrawing', lastPoint'>> = StrokeCommit
          /\ ~isDrawing'
     /\ (ev' \in {"mouseup", "mouseleave"} /\ ~isDrawing) =>
          UNCHANGED <<history, historyIndex>>
     /\ StrokePush => Len(history') = Len(SubSeq(history, 1, historyIndex + 1)) + 1]_vars

\* A stroke dragged from the first to the last pixel of the diagonal was
\* saved, as the second entry, when the pointer left the canvas.
C7_Witness ==
  /\ ev = "mouseleave"
  /\ tally = Some([pushes |-> 2, undos |-> 0, redos |-> 0, after |-> 0])
  /\ Len(history) = 2
  /\ Px(history[2], 0, 0) # Px(history[1], 0, 0)
  /\ Px(history[2], ImgW - 1, ImgH - 1) # Px(history[1], ImgW - 1, ImgH - 1)
  /\ canvas = history[2]

\* The step completes the apply whose callback is c.
Completes(c) ==
  /\ ev' = "cropOnload"
  /\ \E k \in 1..Len(pendingCrops) :
       /\ pendingCrops[k] = c
       /\ pendingCrops' = SubSeq(pendingCrops, 1, k - 1)
                          \o SubSeq(pendingCrops, k + 1, Len(pendingCrops))

\* C8: an applied crop leaves on the canvas, at every (i, j) of the
\* rectangle's width and height, the pixel at (x + i, y + j) of the history
\* buffer that was at the cursor when Apply was clicked.
C8_CropExtractsRegion ==
  [][\A c \in {pendingCrops[k] : k \in 1..Len(pendingCrops)} :
       Completes(c) =>
         LET r == c.cropRect
             before == c.history[c.historyIndex + 1]
         IN  \A i \in 0..(ToLong(r.width) - 1), j \in 0..(ToLong(r.height) - 1) :
               Px(canvas', i, j) = Px(before, ToLong(r.x) + i, ToLong(r.y) + j)]_vars

\* C9: an applied crop gives the canvas and the original the (whole-pixel)
\* width and height of the rectangle, pushes one snapshot, that of the new
\* canvas, clears the rectangle and leaves the editor in Erase mode.
C9_CropResizesAndPushes ==
  [][\A c \in {pendingCrops[k] : k \in 1..Len(pendingCrops)} :
       Completes(c) =>
         /\ canvas'.w = ToLong(c.cropRect.width)
         /\ canvas'.h = ToLong(c.cropRect.height)
         /\ originalImageRef' # None
         /\ Get(originalImageRef').w = ToLong(c.cropRect.width)
         /\ Get(originalImageRef').h = ToLong(c.cropRect.height)
         /\ history' = Append(SubSeq(c.history, 1, c.historyIndex + 1), canvas')
         /\ historyIndex' = Len(history') - 1
         /\ cropRect' = None
         /\ editMode' = Erase]_vars

\* The default rectangle was applied to the loaded image.
C9_Witness ==
  /\ ev = "cropOnload"
  /\ Len(history) = 2
  /\ historyIndex = 1
  /\ canvas.w < ImgW
  /\ canvas.h < ImgH
  /\ originalImageRef # None
  /\ Get(originalImageRef).w = canvas.w
  /\ cropRect = None
  /\ editMode = Erase

\* C10: Apply on a rectangle of width 0 or height 0 pushes nothing, leaves
\* the canvas, the original, the mode and the rectangle as they were, and
\* leaves no completion outstanding.
C10_EmptyCropRejected ==
  [][(/\ ev' = "applyCrop"
      /\ cropRect # None
      /\ Get(cropRect).width = 0 \/ Get(cropRect).height = 0) =>
       UNCHANGED <<history, historyIndex, canvas, originalImageRef, editMode, cropRect,
                   pendingCrops>>]_vars

\* Apply was clicked on an empty rectangle, and the editor is as before.
C10_Witness ==
  /\ ev = "applyCrop"
  /\ editMode = Crop
  /\ cropRect # None
  /\ Get(cropRect).width = 0
  /\ pendingCrops = <<>>
  /\ Len(history) = 1

\* The rectangle lies within the bitmap b (the rectangle is in tenths).
Contained(rect, b) ==
  /\ rect.x >= 0
  /\ rect.y >= 0
  /\ rect.x + rect.width <= 10 * b.w
  /\ rect.y + rect.height <= 10 * b.h

\* C11: Apply on a rectangle that is not within the canvas is rejected: the
\* click leaves no completion outstanding, and no completion of such an
\* apply pushes to the history or changes the canvas, the original or the
\* mode.
C11_OutOfBoundsCropRejected ==
  [][/\ (ev' = "applyCrop" /\ cropRect # None /\ ~Contained(Get(cropRect), canvas)) =>
          UNCHANGED <<history, historyIndex, canvas, originalImageRef, editMode,
                      pendingCrops>>
     /\ \A c \in {pendingCrops[k] : k \in 1..Len(pendingCrops)} :
          (Completes(c) /\ ~Contained(c.cropRect, c.history[c.historyIndex + 1])) =>
            UNCHANGED <<history, historyIndex, canvas, originalImageRef, editMode>>]_vars

C13_RestoreWithoutOriginalKeepsCanvas ==
  [][(/\ ev' \in {"mousedown", "mousemove", "mouseup", "mouseleave"}
      /\ editMode = Restore
      /\ originalImageRef = None) => canvas' = canvas]_vars

\* A Restore stroke is being dragged before the original has loaded.
C13_Witness ==
  /\ ev = "mousemove"
  /\ editMode = Restore
  /\ originalImageRef = None
  /\ isDrawing
  /\ lastPoint # None
  /\ Get(lastPoint).x > 5
  /\ canvas = history[historyIndex + 1]

\* The step draws the segment a-b of a stroke in Erase mode.
ErasesSegment(a, b) ==
  /\ editMode = Erase
  /\ lastPoint' = Some(b)
  /\ \/ ev' = "mousedown" /\ a = b
     \/ ev' = "mousemove" /\ isDrawing /\ lastPoint = Some(a)

\* C14: a segment of an Erase stroke raises no pixel's alpha, leaves a fully
\* transparent pixel as it is (so erasing a region again lowers nothing
\* below transparent and raises nothing), and leaves the pixels the stroke
\* does not cover untouched.
C14_EraseLowersAlpha ==
  [][\A a, b \in Points(canvas) :
       ErasesSegment(a, b) =>
         /\ canvas'.w = canvas.w
         /\ canvas'.h = canvas.h
         /\ \A k \in 1..(canvas.w * canvas.h) :
              /\ Alpha(canvas'.px[k]) <= Alpha(canvas.px[k])
              /\ Alpha(canvas.px[k]) = 0 => canvas'.px[k] = canvas.px[k]
              /\ StrokeCov(Col(k, canvas.w), Row(k, canvas.w), a, b, brushSettings.size)
                   = "none" => canvas'.px[k] = canvas.px[k]]_vars

\* The first pixel was erased by a saved stroke of size 2 and has been
\* clicked on again; its neighbours, out of the brush's reach, are opaque.
C14_Witness ==
  /\ ev = "mousedown"
  /\ editMode = Erase
  /\ brushSettings.size = 2
  /\ lastPoint = Some([x |-> 5, y |-> 5])
  /\ Len(history) >= 2
  /\ historyIndex = Len(history) - 1
  /\ Alpha(Px(history[1], 0, 0)) = 2
  /\ Alpha(Px(history[historyIndex + 1], 0, 0)) = 0
  /\ Alpha(Px(canvas, 0, 0)) = 0
  /\ Alpha(Px(canvas, 2, 2)) = 2

\* The step draws the segment a-b of a stroke in Restore mode.
RestoresSegment(a, b) ==
  /\ editMode = Restore
  /\ lastPoint' = Some(b)
  /\ \/ ev' = "mousedown" /\ a = b
     \/ ev' = "mousemove" /\ isDrawing /\ lastPoint = Some(a)

\* C15: a segment of a Restore stroke, made while the original is
\* available, gives every pixel that lies wholly inside the stroke the
\* original's pixel at the same coordinates and leaves every pixel the
\* stroke does not touch unchanged.
C15_RestorePaintsOriginal ==
  [][\A a, b \in Points(canvas) :
       (RestoresSegment(a, b) /\ originalImageRef # None) =>
         \A k \in 1..(canvas.w * canvas.h) :
           LET i == Col(k, canvas.w)
               j == Row(k, canvas.w)
               cov == StrokeCov(i, j, a, b, brushSettings.size)
           IN  /\ cov = "full" => canvas'.px[k] = Px(Get(originalImageRef), i, j)
               /\ cov = "none" => canvas'.px[k] = canvas.px[k]]_vars

\* The step, a handler called name, brings the tally of history operations
\* since the mount to the given counts.
TalliedAs(name, pushes, undos, redos) ==
  /\ ev' = name
  /\ tally' # tally
  /\ tally' = Some([pushes |-> pushes, undos |-> undos, redos |-> redos, after |-> 0])

\* C16: after the load and one stroke the history holds the loaded and the
\* post-stroke buffers and the canvas shows the latter; one undo then makes
\* canUndo false and canRedo true; a redo after it shows the post-stroke
\* buffer again, with canUndo true and canRedo false.
C16_UndoThenRedoOfOneStroke ==
  [][/\ (\E name \in {"mouseup", "mouseleave"} : TalliedAs(name, 2, 0, 0)) =>
          /\ Len(history') = 2
          /\ canvas' = history'[2]
          /\ canUndo' /\ ~canRedo'
     /\ TalliedAs("undo", 2, 1, 0) =>
          /\ history' = history
          /\ canvas' = history[1]
          /\ ~canUndo' /\ canRedo'
     /\ TalliedAs("redo", 2, 1, 1) =>
          /\ history' = history
          /\ canvas' = history[2]
          /\ canUndo' /\ ~canRedo']_vars

\* The load, an erase stroke that made pixels transparent, one undo and one
\* redo have happened.
C16_Witness ==
  /\ tally = Some([pushes |-> 2, undos |-> 1, redos |-> 1, after |-> 0])
  /\ ev = "redo"
  /\ Len(history) = 2
  /\ \E k \in 1..(history[1].w * history[1].h) :
       Alpha(history[2].px[k]) < Alpha(history[1].px[k])
  /\ canvas = history[2]

\* C17: a failed upload ends with its one error message set, no original
\* and no processed image, and loading off; the editor is rendered at no
\* moment of it, nor while the message stays, and is entered only by the
\* end of an upload that succeeded.
C17_FailedUploadRollsBack ==
  [][/\ (ev' = "finally" /\ error # None) =>
          /\ error' = error
          /\ originalImage' = None
          /\ processedImage' = None
          /\ ~isLoading'
     /\ (error # None \/ error' # None) => ~EditorRendered'
     /\ (~EditorRendered /\ EditorRendered') =>
          /\ ev' = "finally"
          /\ error = None
          /\ upload.base64Image \in {Some(t) : t \in MimeTypes}
          /\ originalImage' = upload.base64Image]_vars

\* After one reset a second upload has failed in the background removal,
\* with an original image set in between, and its call has ended.
C17_Witness ==
  /\ ev = "finally"
  /\ key = 1
  /\ error = Some(<<"Failed to process image.", "The API returned an error">>)
  /\ originalImage = None
  /\ processedImage = None
  /\ ~isLoading
  /\ upload = NoUpload

\* The step is a mouse move, in Crop mode, during an action of this type.
CropDrag(type) ==
  /\ ev' = "mousemove"
  /\ editMode = Crop
  /\ cropAction # None
  /\ Get(cropAction).type = type
  /\ pointerAt' # None

\* The step is a mouse press that starts an action of this type.
CropPress(type) ==
  /\ ev' = "mousedown"
  /\ cropAction' # None
  /\ Get(cropAction').type = type
  /\ pointerAt' # None

\* C18: a drawing action is anchored at the point of the press, and every
\* move of it stores the box between the anchor and the pointer: the lesser
\* coordinates as x and y, the absolute differences as width and height.
\* Dragging from (100, 100) to (40, 40) gives {40, 40, 60, 60}.
C18_DrawingSpansAnchorAndPointer ==
  [][/\ CropPress("drawing") =>
          /\ Get(cropAction').startX = Get(pointerAt').x
          /\ Get(cropAction').startY = Get(pointerAt').y
     /\ CropDrag("drawing") =>
          LET a == Get(cropAction)
              p == Get(pointerAt')
          IN  /\ cropAction' = cropAction
              /\ cropRect' = Some([x |-> IF p.x < a.startX THEN p.x ELSE a.startX,
                                   y |-> IF p.y < a.startY THEN p.y ELSE a.startY,
                                   width |-> IF p.x < a.startX THEN a.startX - p.x
                                             ELSE p.x - a.startX,
                                   height |-> IF p.y < a.startY THEN a.startY - p.y
                                              ELSE p.y - a.startY])
     /\ MovedRect([type |-> "drawing", handle |-> "", startX |-> 1000, startY |-> 1000,
                   startRect |-> None], [x |-> 400, y |-> 400])
          = Some([x |-> 400, y |-> 400, width |-> 600, height |-> 600])]_vars

\* A drawing action has been dragged up and to the left of its anchor.
C18_Witness ==
  /\ ev = "mousemove"
  /\ editMode = Crop
  /\ cropAction # None
  /\ Get(cropAction).type = "drawing"
  /\ pointerAt # None
  /\ Get(pointerAt).x < Get(cropAction).startX
  /\ Get(pointerAt).y < Get(cropAction).startY
  /\ cropRect = Some([x |-> Get(pointerAt).x, y |-> Get(pointerAt).y,
                      width |-> Get(cropAction).startX - Get(pointerAt).x,
                      height |-> Get(cropAction).startY - Get(pointerAt).y])

\* The edits the handles make to a rectangle r for a pointer delta (dx, dy):
\* the left edge's handles add dx to x and take it from the width, the right
\* edge's add it to the width, the top edge's add dy to y and take it from
\* the height, the bottom edge's add it to the height.
EdgeEdit(handle, r, dx, dy) ==
  [x |-> IF handle \in {"tl", "ml", "bl"} THEN r.x + dx ELSE r.x,
   y |-> IF handle \in {"tl", "tm", "tr"} THEN r.y + dy ELSE r.y,
   width |-> IF handle \in {"tl", "ml", "bl"} THEN r.width - dx
             ELSE IF handle \in {"tr", "mr", "br"} THEN r.width + dx
             ELSE r.width,
   height |-> IF handle \in {"tl", "tm", "tr"} THEN r.height - dy
              ELSE IF handle \in {"bl", "bm", "br"} THEN r.height + dy
              ELSE r.height]

\* The same box with no negative width or height.
Flipped(r) ==
  [x |-> IF r.width < 0 THEN r.x + r.width ELSE r.x,
   y |-> IF r.height < 0 THEN r.y + r.height ELSE r.y,
   width |-> IF r.width < 0 THEN -r.width ELSE r.width,
   height |-> IF r.height < 0 THEN -r.height ELSE r.height]

\* The rectangle of the press edited for the pointer of a resizing move.
ResizeEdit ==
  LET a == Get(cropAction)
      p == Get(pointerAt')
  IN  EdgeEdit(a.handle, Get(a.startRect), p.x - a.startX, p.y - a.startY)

\* C19 as stated: every move of a resizing action stores the rectangle of
\* the press with the edits of its handle for the pointer's delta from the
\* anchor.
C19_AsStated ==
  [][CropDrag("resizing") => cropRect' = Some(ResizeEdit)]_vars

\* C19 amended: a resizing action keeps the rectangle and the point of the
\* press, and every move of it stores that rectangle with the edits of its
\* handle for the pointer's delta from the anchor, flipped where an edit
\* made the width or the height negative.  From {10, 10, 50, 50} the delta
\* (+20, -5) gives {10, 10, 70, 45} on handle br and {30, 5, 30, 55} on tl.
C19_ResizeEditsThenFlips ==
  [][/\ CropPress("resizing") =>
          /\ Get(cropAction').startRect = cropRect
          /\ Get(cropAction').startX = Get(pointerAt').x
          /\ Get(cropAction').startY = Get(pointerAt').y
          /\ Get(cropAction').handle = getCropHandle(Get(pointerAt'), Get(cropRect))
     /\ CropDrag("resizing") =>
          /\ cropAction' = cropAction
          /\ cropRect' = Some(Flipped(ResizeEdit))
          /\ (ResizeEdit.width >= 0 /\ ResizeEdit.height >= 0) =>
               cropRect' = Some(ResizeEdit)
     /\ \A h \in {"br", "tl"} :
          MovedRect([type |-> "resizing", handle |-> h, startX |-> 300, startY |-> 300,
                     startRect |-> Some([x |-> 100, y |-> 100, width |-> 500,
                                         height |-> 500])],
                    [x |-> 500, y |-> 250])
            = Some(IF h = "br" THEN [x |-> 100, y |-> 100, width |-> 700, height |-> 450]
                   ELSE [x |-> 300, y |-> 50, width |-> 300, height |-> 550])]_vars

\* The handle in the middle of the left edge has been dragged past the
\* right edge: the stored rectangle starts at the old right edge.
C19_Witness ==
  /\ ev = "mousemove"
  /\ editMode = Crop
  /\ cropAction # None
  /\ Get(cropAction).type = "resizing"
  /\ Get(cropAction).handle = "ml"
  /\ pointerAt # None
  /\ LET s == Get(Get(cropAction).startRect)
         dx == Get(pointerAt).x - Get(cropAction).startX
     IN  /\ dx > s.width
         /\ cropRect = Some([s EXCEPT !.x = s.x + s.width, !.width = dx - s.width])

\* C20: a moving action keeps the rectangle and the point of the press, and
\* every move of it stores that rectangle translated by the pointer's delta
\* from the anchor, its width and height kept: the result is a function of
\* the press and of the latest position alone.
C20_MovingTranslatesSnapshot ==
  [][/\ CropPress("moving") =>
          /\ Get(cropAction').startRect = cropRect
          /\ Get(cropAction').startX = Get(pointerAt').x
          /\ Get(cropAction').startY = Get(pointerAt').y
     /\ CropDrag("moving") =>
          LET a == Get(cropAction)
              s == Get(a.startRect)
              p == Get(pointerAt')
          IN  /\ cropAction' = cropAction
              /\ cropRect' = Some([x |-> s.x + (p.x - a.startX),
                                   y |-> s.y + (p.y - a.startY),
                                   width |-> s.width, height |-> s.height])]_vars

\* A moving action has been dragged down and to the left of its anchor.
C20_Witness ==
  /\ ev = "mousemove"
  /\ editMode = Crop
  /\ cropAction # None
  /\ Get(cropAction).type = "moving"
  /\ pointerAt # None
  /\ LET a == Get(cropAction)
         s == Get(a.startRect)
     IN  /\ Get(pointerAt).x < a.startX
         /\ Get(pointerAt).y > a.startY
         /\ cropRect = Some([s EXCEPT !.x = @ + Get(pointerAt).x - a.startX,
                                      !.y = @ + Get(pointerAt).y - a.startY])

\* C21: a stored crop rectangle has no negative width and no negative
\* height, whatever was drawn, moved or resized, a resize past the opposite
\* edge included.
C21_RectDimensionsNonNegative ==
  cropRect # None => Get(cropRect).width >= 0 /\ Get(cropRect).height >= 0

\* The handle in the middle of the top edge has been dragged below the
\* bottom edge: the stored rectangle hangs from the old bottom edge.
C21_Witness ==
  /\ ev = "mousemove"
  /\ editMode = Crop
  /\ cropAction # None
  /\ Get(cropAction).type = "resizing"
  /\ Get(cropAction).handle = "tm"
  /\ pointerAt # None
  /\ cropRect # None
  /\ LET s == Get(Get(cropAction).startRect)
         dy == Get(pointerAt).y - Get(cropAction).startY
     IN  /\ s.height - dy < 0
         /\ Get(cropRect).y = s.y + s.height
         /\ Get(cropRect).height = dy - s.height

\* Is pos within the square of side HANDLE_SIZE centred on the handle h of
\* rect?  (Doubled tenths, which keep the midpoints exact.)
InHandleSquare(pos, rect, h) ==
  LET cx == IF h \in {"tl", "ml", "bl"} THEN 2 * rect.x
            ELSE IF h \in {"tr", "mr", "br"} THEN 2 * (rect.x + rect.width)
            ELSE 2 * rect.x + rect.width
      cy == IF h \in {"tl", "tm", "tr"} THEN 2 * rect.y
            ELSE IF h \in {"bl", "bm", "br"} THEN 2 * (rect.y + rect.height)
            ELSE 2 * rect.y + rect.height
      ax == IF 2 * pos.x < cx THEN cx - 2 * pos.x ELSE 2 * pos.x - cx
      ay == IF 2 * pos.y < cy THEN cy - 2 * pos.y ELSE 2 * pos.y - cy
  IN  ax <= 10 * HANDLE_SIZE /\ ay <= 10 * HANDLE_SIZE

\* C22: a press in Crop mode on a point within the square of side
\* HANDLE_SIZE centred on one of the eight handles starts a resizing action
\* with such a handle; on a point in none of the squares but in the body of
\* the rectangle it starts a moving action; on any other point, or with no
\* rectangle, a drawing action.
C22_HandleSquaresOfHandleSize ==
  [][(ev' = "mousedown" /\ editMode = Crop /\ pointerAt' # None) =>
       LET pos == Get(pointerAt')
           hits == IF cropRect = None THEN {}
                   ELSE { h \in {"tl", "tr", "bl", "br", "tm", "bm", "ml", "mr"} :
                            InHandleSquare(pos, Get(cropRect), h) }
           body == /\ cropRect # None
                   /\ pos.x > Get(cropRect).x
                   /\ pos.x < Get(cropRect).x + Get(cropRect).width
                   /\ pos.y > Get(cropRect).y
                   /\ pos.y < Get(cropRect).y + Get(cropRect).height
       IN  /\ cropAction' # None
           /\ IF hits # {}
              THEN /\ Get(cropAction').type = "resizing"
                   /\ Get(cropAction').handle \in hits
              ELSE IF body THEN Get(cropAction').type = "moving"
              ELSE Get(cropAction').type = "drawing"]_vars

\* C23: a crop action starts only with a press in Crop mode; none is active
\* after a mouse up or a mouse leave, after a switch of mode, after Apply
\* and its completion, or after Cancel; and a mouse up or leave keeps the
\* crop rectangle.
C23_ActionEndsWithGesture ==
  [][/\ (cropAction = None /\ cropAction' # None) =>
          ev' = "mousedown" /\ editMode = Crop
     /\ ev' \in {"mouseup", "mouseleave"} =>
          cropAction' = None /\ cropRect' = cropRect
     /\ ev' \in {"setEditMode", "applyCrop", "cropOnload", "cancelCrop"} =>
          cropAction' = None]_vars

\* C24: no brush stroke is in progress while a crop action is active, and
\* none while the mode is Crop.
C24_OneGestureAtATime ==
  /\ ~(isDrawing /\ cropAction # None)
  /\ ~(isDrawing /\ editMode = Crop)

\* C25: the crop rectangle is present exactly when the edit mode is Crop.
C25_RectExactlyInCropMode ==
  (editMode = Crop) <=> (cropRect # None)

\* The deferred completion of an Apply has just run while a second one is
\* still outstanding, after the rectangle had been resized: the mode is
\* Erase and there is no rectangle.
C25_Witness ==
  /\ ev = "cropOnload"
  /\ pendingCrops # <<>>
  /\ pendingCrops[1].cropRect # DefaultCropRect(history[1])
  /\ editMode = Erase
  /\ cropRect = None

\* C26: the completion of an applied crop runs once for its Apply click and
\* pushes its buffer right after the cursor it finds: the cursor moves up by
\* one onto the last entry, and every entry up to the old cursor stays.
C26_CompletionAppendsAtCursor ==
  [][ev' = "cropOnload" =>
       /\ Len(pendingCrops') = Len(pendingCrops) - 1
       /\ historyIndex' = historyIndex + 1
       /\ Len(history') = historyIndex + 2
       /\ \A i \in 1..(historyIndex + 1) : history'[i] = history[i]]_vars

====
